---- MODULE Spec2Model ----
(***************************************************************************)
(* Model of the masking / tokenization pipeline and of the batch collators *)
(* of ProteinInteraPredict:                                                *)
(*   src/DatasetClass.py                          (fixed-length variant)   *)
(*   src/pre_training_bert_model_on_new_tokens.py (mode-driven variant)    *)
(*                                                                         *)
(* Texts are sequences of whitespace-separated words, tokens are strings,  *)
(* tensors are sequences of integers, example and batch dictionaries are   *)
(* functions from key strings.  Probabilities are in percent (0.15 is 15). *)
(* A comparison of a uniform draw from [0, 1) with a probability is the    *)
(* choice of its outcome: TRUE needs a probability above 0, FALSE one      *)
(* below 1.                                                                *)
(***************************************************************************)
EXTENDS Integers, Sequences, FiniteSets, TLC

VARIABLES dataframe, dataset, replaced, example, status, op, batch, batched

vars == <<dataframe, dataset, replaced, example, status, op, batch, batched>>

----------------------------------------------------------------------------
(* Bounds of the model *)

\* longest text (in words) held by one dataframe cell
MaxSeqLen == 1
\* the two max_length settings a DatasetClass dataset is constructed with
MaxLenSmall == 4
MaxLenLarge == 7
\* largest batch handed to a collate_fn
MaxBatch == 2
\* tokenizer.vocab_size of the modelled tokenizer (ids 0 .. VocabSize-1)
VocabSize == 6
\* longest tensor in a hand-built example dictionary
MaxTensorLen == 2
\* most words the two cells of a row hold together under SpecPretrain, whose
\* masking has VocabSize outcomes for every token
MaxRowWords == 1

----------------------------------------------------------------------------
(* The tokenizer capability (Rostlab/prot_bert with the two entity tokens) *)

PadId == 0
UnkId == 1
ClsId == 2
SepId == 3
MaskId == 4
ResidueLId == 5
IgnoreIndex == -100

mask_token == "[MASK]"

\* the added special tokens take the ids after the base vocabulary
Entity1Id == VocabSize
Entity2Id == VocabSize + 1

VocabTokens ==
    {"[PAD]", "[UNK]", "[CLS]", "[SEP]", "[MASK]", "L", "[ENTITY1]", "[ENTITY2]"}

\* words a dataframe cell is made of: a residue of the vocabulary and a
\* chunk of residues written without spaces, which is no vocabulary entry
Words == {"L", "MK"}

RECURSIVE SeqsUpTo(_, _)
SeqsUpTo(S, n) ==
    IF n = 0 THEN {<<>>}
    ELSE LET shorter == SeqsUpTo(S, n - 1)
         IN  shorter \cup {Append(s, x) : s \in shorter, x \in S}

Texts == SeqsUpTo(Words, MaxSeqLen)

Min(a, b) == IF a < b THEN a ELSE b
Max(a, b) == IF a > b THEN a ELSE b

\* n copies of v; no copy at all when n <= 0 (Python's [v] * n)
Fill(n, v) == [i \in 1..Max(n, 0) |-> v]

\* tokenizer.convert_tokens_to_ids for one token
TokenId(t) ==
    CASE t = "[PAD]" -> PadId
      [] t = "[UNK]" -> UnkId
      [] t = "[CLS]" -> ClsId
      [] t = "[SEP]" -> SepId
      [] t = "[MASK]" -> MaskId
      [] t = "L" -> ResidueLId
      [] t = "[ENTITY1]" -> Entity1Id
      [] t = "[ENTITY2]" -> Entity2Id
      [] OTHER -> UnkId

convert_tokens_to_ids(tokens) == [i \in 1..Len(tokens) |-> TokenId(tokens[i])]

\* tokenizer.tokenize: one token per word, a word outside the vocabulary
\* becomes the unknown token
tokenize(words) ==
    [i \in 1..Len(words) |-> IF words[i] \in VocabTokens THEN words[i] ELSE "[UNK]"]

\* the f-string of __getitem__: "[ENTITY1] {a} [SEP] [ENTITY2] {b}"
Render(a, b) == <<"[ENTITY1]">> \o a \o <<"[SEP]", "[ENTITY2]">> \o b

\* encode with add_special_tokens, truncation=True and padding='max_length':
\* the text is cut to max_length - 2 tokens, wrapped in [CLS] .. [SEP] and
\* right-padded with [PAD]; the attention mask is 1 on the unpadded part
EncodeFixed(words, max_length) ==
    LET ids  == convert_tokens_to_ids(tokenize(words))
        kept == SubSeq(ids, 1, Min(Len(ids), max_length - 2))
        body == <<ClsId>> \o kept \o <<SepId>>
    IN  [input_ids      |-> body \o Fill(max_length - Len(body), PadId),
         attention_mask |-> Fill(Len(body), 1) \o Fill(max_length - Len(body), 0)]

----------------------------------------------------------------------------
(* src/DatasetClass.py *)

Columns == {"Sequence_A", "Sequence_B", "masked_sequence_A", "masked_sequence_B"}

Probabilities == {0, 15, 100}

\* the outcomes that (a uniform draw from [0, 1)) < p can have
Below(p) == {b \in BOOLEAN : (b => p > 0) /\ (~b => p < 100)}

NoDataset == [constructed |-> FALSE]
NoExample == <<>>

\* ProteinInteractionDataset.tokenize_sequence
tokenize_sequence(ds, sequence) ==
    LET encoded == EncodeFixed(sequence, ds.max_length)
    IN  <<encoded.input_ids, encoded.attention_mask>>

\* the labels list once the loop over the tokens has run
LoopLabels(ds, tokens, rs) ==
    [i \in 1..Len(tokens) |->
        IF rs[i] THEN TokenId(tokens[i]) ELSE IgnoreIndex]

\* labels += [-100] * (self.max_length - len(labels))
PadLabels(ds, labels) == labels \o Fill(ds.max_length - Len(labels), IgnoreIndex)

\* ProteinInteractionDataset.mask_and_tokenize_sequence; rs are the outcomes
\* of random.random() < self.mask_probability, one per token
mask_and_tokenize_sequence(ds, sequence, rs) ==
    LET tokens        == tokenize(sequence)
        masked_tokens == [i \in 1..Len(tokens) |->
                            IF rs[i] THEN mask_token ELSE tokens[i]]
        encoded       == EncodeFixed(masked_tokens, ds.max_length)
    IN  <<encoded.input_ids, encoded.attention_mask,
          PadLabels(ds, LoopLabels(ds, tokens, rs))>>

\* the dictionary __getitem__ returns
GetItemResult(ds, row, rs) ==
    LET global_seq == Render(row["Sequence_A"], row["Sequence_B"])
        local_seq  == Render(row["masked_sequence_A"], row["masked_sequence_B"])
        g == tokenize_sequence(ds, global_seq)
        l == mask_and_tokenize_sequence(ds, local_seq, rs)
    IN  [k \in {"input_ids_global", "attention_mask_global", "input_ids_local",
                "attention_mask_local", "labels_local"} |->
            CASE k = "input_ids_global" -> g[1]
              [] k = "attention_mask_global" -> g[2]
              [] k = "input_ids_local" -> l[1]
              [] k = "attention_mask_local" -> l[2]
              [] OTHER -> l[3]]

\* number of tokens of the local text of a row, which is the number of
\* random.random() calls of one __getitem__
LocalTokenCount(row) ==
    Len(Render(row["masked_sequence_A"], row["masked_sequence_B"]))

----------------------------------------------------------------------------
(* collate_fn of src/DatasetClass.py *)

CollateKeys ==
    <<"input_ids_global", "attention_mask_global", "labels_global",
      "input_ids_local", "attention_mask_local">>

\* 'mask' in key or 'input_ids' in key, for the keys collate_fn goes through
NamesMaskOrInputIds(key) ==
    key \in {"input_ids_global", "attention_mask_global",
             "input_ids_local", "attention_mask_local"}

\* fill_value=0 if 'mask' in key or 'input_ids' in key else -100
FillValue(key) == IF NamesMaskOrInputIds(key) THEN PadId ELSE IgnoreIndex

RECURSIVE MaxOf(_)
MaxOf(S) ==
    IF Cardinality(S) = 1 THEN CHOOSE x \in S : TRUE
    ELSE LET x == CHOOSE y \in S : TRUE IN Max(x, MaxOf(S \ {x}))

\* max(max(len(item['input_ids_global']), len(item['input_ids_local'])) ...)
JointMaxLength(b) ==
    MaxOf({Max(Len(b[i]["input_ids_global"]), Len(b[i]["input_ids_local"])) :
              i \in 1..Len(b)})

\* what building the padded tensor of item i for the j-th key raises:
\* item[key] of a key the item lacks, torch.full of a negative size
PaddingFailure(b, j, i) ==
    IF CollateKeys[j] \notin DOMAIN b[i] THEN "KeyError"
    ELSE IF Len(b[i][CollateKeys[j]]) > JointMaxLength(b) THEN "RuntimeError"
    ELSE "ok"

\* what stops collate_fn on batch b, "ok" when nothing does: max() of an
\* empty batch, a missing input_ids key while the maximum is taken, else
\* the first failure met going through the keys and, for each, the items
CollateOutcome(b) ==
    IF Len(b) = 0 THEN "ValueError"
    ELSE IF \E i \in 1..Len(b) :
               ~({"input_ids_global", "input_ids_local"} \subseteq DOMAIN b[i])
    THEN "KeyError"
    ELSE LET failing == {<<j, i>> \in (1..Len(CollateKeys)) \X (1..Len(b)) :
                            PaddingFailure(b, j, i) # "ok"}
         IN  IF failing = {} THEN "ok"
             ELSE LET first == CHOOSE f \in failing :
                                  \A g \in failing :
                                      f[1] < g[1] \/ (f[1] = g[1] /\ f[2] <= g[2])
                  IN  PaddingFailure(b, first[1], first[2])

\* padded_batch of a batch collate_fn does not stop on
collate_fn(b) ==
    LET max_length == JointMaxLength(b)
    IN  [key \in {CollateKeys[j] : j \in 1..Len(CollateKeys)} |->
            [i \in 1..Len(b) |->
                b[i][key] \o Fill(max_length - Len(b[i][key]), FillValue(key))]]

----------------------------------------------------------------------------
(* The DatasetClass.py pipeline *)

Init ==
    /\ dataframe \in UNION {[cols -> Texts] : cols \in SUBSET Columns}
    /\ dataset = NoDataset
    /\ replaced = <<>>
    /\ example = NoExample
    /\ status = "none"
    /\ op = "init"
    /\ batch = <<>>
    /\ batched = <<>>

\* ProteinInteractionDataset.__init__: stores its arguments, reads nothing
Construct ==
    \E max_length \in {MaxLenSmall, MaxLenLarge}, p \in Probabilities :
        /\ ~dataset.constructed
        /\ dataset' = [constructed |-> TRUE, max_length |-> max_length,
                       mask_probability |-> p]
        /\ status' = "ok"
        /\ op' = "init_dataset"
        /\ UNCHANGED <<dataframe, replaced, example, batch, batched>>

\* ProteinInteractionDataset.__getitem__, called by the data loader that
\* gathers a batch: row[...] of a column the dataframe lacks raises KeyError
\* before anything is tokenized; a returned example joins the batch
GetItem ==
    /\ dataset.constructed
    /\ op \in {"init_dataset", "getitem"}
    /\ Len(batch) < MaxBatch
    /\ op' = "getitem"
    /\ IF Columns \subseteq DOMAIN dataframe
       THEN \E rs \in [1..LocalTokenCount(dataframe) -> Below(dataset.mask_probability)] :
               /\ replaced' = rs
               /\ example' = GetItemResult(dataset, dataframe, rs)
               /\ batch' = Append(batch, example')
               /\ status' = "ok"
       ELSE /\ status' = "KeyError"
            /\ UNCHANGED <<replaced, example, batch>>
    /\ UNCHANGED <<dataframe, dataset, batched>>

\* collate_fn on the gathered batch
Collate ==
    /\ op = "getitem"
    /\ status = "ok"
    /\ op' = "collate"
    /\ status' = CollateOutcome(batch)
    /\ batched' = IF status' = "ok" THEN collate_fn(batch) ELSE batched
    /\ UNCHANGED <<dataframe, dataset, replaced, example, batch>>

Next == Construct \/ GetItem \/ Collate

Spec == Init /\ [][Next]_vars

----------------------------------------------------------------------------
(* src/pre_training_bert_model_on_new_tokens.py: the dataset *)

Modes == {"global_masked", "local"}

\* self.modes = modes if modes else ['global_masked']
EffectiveModes(modes) == IF modes = {} THEN {"global_masked"} ELSE modes

\* ProteinInteractionDataset.tokenize_sequence of the training script:
\* special tokens, padding=False, and truncation=True with no max_length,
\* which cuts nothing off texts of the lengths modelled here
pretrain_tokenize_sequence(sequence) ==
    LET ids  == convert_tokens_to_ids(tokenize(sequence))
        body == <<ClsId>> \o ids \o <<SepId>>
    IN  <<body, Fill(Len(body), 1)>>

\* torch.rand(...) < 0.8
MaskShare == 80

\* torch.randint(2, self.tokenizer.vocab_size, ...): low inclusive, high exclusive
RandomTokenLow == 2
RandomTokenRangeFromZero == 0..(VocabSize - 1)
RandomTokenRange == RandomTokenLow..(VocabSize - 1)

\* The three random tensors, position by position: sel is the outcome of
\* torch.rand(..) < self.mask_probability, act that of torch.rand(..) < 0.8,
\* tok the torch.randint value.  An entry that cannot reach the result (act
\* and tok where the position is not selected, tok where the mask token is
\* written) is held at one value.
PositionDraws(ds) ==
    {d \in [sel : Below(ds.mask_probability), act : Below(MaskShare),
            tok : RandomTokenRange] :
        /\ ~d.sel => d.act /\ d.tok = RandomTokenLow
        /\ (d.sel /\ d.act) => d.tok = RandomTokenLow}

\* mask_indices
Selected(d) == d.sel

\* actual_mask = mask_indices & (torch.rand(input_ids.shape) < 0.8)
ActualMask(d) == Selected(d) /\ d.act

\* ProteinInteractionDataset.random_mask_sequence
random_mask_sequence(ds, sequence, ds_draws) ==
    LET tokens    == tokenize(sequence)
        ids       == convert_tokens_to_ids(tokens)
        n         == Len(ids)
        labels    == [i \in 1..n |->
                        IF Selected(ds_draws[i]) THEN ids[i] ELSE IgnoreIndex]
        masked    == [i \in 1..n |->
                        IF ActualMask(ds_draws[i]) THEN TokenId(mask_token) ELSE ids[i]]
        input_ids == [i \in 1..n |->
                        IF Selected(ds_draws[i]) /\ ~ActualMask(ds_draws[i])
                        THEN ds_draws[i].tok ELSE masked[i]]
    IN  <<input_ids, Fill(n, 1), labels>>

\* the dictionary __getitem__ of the training script returns
PretrainGetItemResult(ds, row, ds_draws) ==
    LET seq == Render(row["Sequence_A"], row["Sequence_B"])
        m   == random_mask_sequence(ds, seq, ds_draws)
        t   == pretrain_tokenize_sequence(seq)
        gm  == IF "global_masked" \in ds.modes
               THEN {"input_ids_global_masked", "attention_mask_global_masked",
                     "labels_global_masked"}
               ELSE {}
        lo  == IF "local" \in ds.modes
               THEN {"input_ids_local", "attention_mask_local"}
               ELSE {}
    IN  [k \in gm \cup lo |->
            CASE k = "input_ids_global_masked" -> m[1]
              [] k = "attention_mask_global_masked" -> m[2]
              [] k = "labels_global_masked" -> m[3]
              [] k = "input_ids_local" -> t[1]
              [] OTHER -> t[2]]

PretrainColumns == {"Sequence_A", "Sequence_B"}

\* rows of at most MaxRowWords words
PretrainFrames ==
    {f \in UNION {[cols -> Texts] : cols \in SUBSET PretrainColumns} :
        \A a \in DOMAIN f, b \in DOMAIN f :
            a # b => Len(f[a]) + Len(f[b]) <= MaxRowWords}

InitPretrain ==
    /\ dataframe \in PretrainFrames
    /\ dataset = NoDataset
    /\ replaced = <<>>
    /\ example = NoExample
    /\ status = "none"
    /\ op = "init"
    /\ batch = <<>>
    /\ batched = <<>>

\* ProteinInteractionDataset.__init__ of the training script
PretrainConstruct ==
    \E p \in Probabilities, modes \in SUBSET Modes :
        /\ ~dataset.constructed
        /\ dataset' = [constructed |-> TRUE, mask_probability |-> p,
                       modes |-> EffectiveModes(modes)]
        /\ status' = "ok"
        /\ op' = "init_dataset"
        /\ UNCHANGED <<dataframe, replaced, example, batch, batched>>

\* ProteinInteractionDataset.__getitem__ of the training script; a behaviour
\* follows one per-example access (accesses share no state)
PretrainGetItem ==
    /\ dataset.constructed
    /\ op = "init_dataset"
    /\ op' = "getitem"
    /\ IF PretrainColumns \subseteq DOMAIN dataframe
       THEN LET n == IF "global_masked" \in dataset.modes
                     THEN Len(Render(dataframe["Sequence_A"], dataframe["Sequence_B"]))
                     ELSE 0
            IN  \E ds_draws \in [1..n -> PositionDraws(dataset)] :
                   /\ replaced' = [i \in 1..n |-> Selected(ds_draws[i])]
                   /\ example' = PretrainGetItemResult(dataset, dataframe, ds_draws)
                   /\ status' = "ok"
       ELSE /\ status' = "KeyError"
            /\ UNCHANGED <<replaced, example>>
    /\ UNCHANGED <<dataframe, dataset, batch, batched>>

NextPretrain == PretrainConstruct \/ PretrainGetItem

SpecPretrain == InitPretrain /\ [][NextPretrain]_vars

----------------------------------------------------------------------------
(* src/pre_training_bert_model_on_new_tokens.py: collate_fn *)

InputIdsKey(mode) ==
    IF mode = "global_masked" THEN "input_ids_global_masked" ELSE "input_ids_local"
AttentionMaskKey(mode) ==
    IF mode = "global_masked" THEN "attention_mask_global_masked"
    ELSE "attention_mask_local"
LabelsKey(mode) ==
    IF mode = "global_masked" THEN "labels_global_masked" ELSE "labels_local"

PretrainKeys ==
    UNION {{InputIdsKey(m), AttentionMaskKey(m), LabelsKey(m)} : m \in Modes}

\* positions of the items of b that hold key, in batch order
RECURSIVE Kept(_, _)
Kept(b, key) ==
    IF Len(b) = 0 THEN <<>>
    ELSE LET front == Kept(SubSeq(b, 1, Len(b) - 1), key)
         IN  IF key \in DOMAIN b[Len(b)] THEN Append(front, Len(b)) ELSE front

\* [item.get(key, torch.Tensor()) for item in batch if key in item]
Gather(b, key) == [r \in 1..Len(Kept(b, key)) |-> b[Kept(b, key)[r]][key]]

\* torch.nn.utils.rnn.pad_sequence(sequences, batch_first=True, padding_value)
\* of a non-empty list
pad_sequence(sequences, padding_value) ==
    LET width == MaxOf({Len(sequences[r]) : r \in 1..Len(sequences)})
    IN  [r \in 1..Len(sequences) |->
            sequences[r] \o Fill(width - Len(sequences[r]), padding_value)]

\* what stops collate_fn of the training script on batch b, "ok" when
\* nothing does: pad_sequence of the empty attention_masks list of a mode
\* whose input_ids list is not empty
PretrainCollateOutcome(b) ==
    IF \E m \in Modes :
          /\ Len(Gather(b, InputIdsKey(m))) > 0
          /\ Len(Gather(b, AttentionMaskKey(m))) = 0
    THEN "RuntimeError"
    ELSE "ok"

\* the keys of batched_data
PretrainEmitted(b) ==
    UNION {IF Len(Gather(b, InputIdsKey(m))) = 0 THEN {}
           ELSE {InputIdsKey(m), AttentionMaskKey(m)}
                \cup (IF Len(Gather(b, LabelsKey(m))) > 0 THEN {LabelsKey(m)} ELSE {}) :
           m \in Modes}

\* padding_value=0 for the input_ids and attention_mask lists, -100 for labels
PaddingValue(key) ==
    IF key \in {LabelsKey(m) : m \in Modes} THEN IgnoreIndex ELSE PadId

\* batched_data of a batch collate_fn does not stop on
pretrain_collate_fn(b) ==
    [key \in PretrainEmitted(b) |-> pad_sequence(Gather(b, key), PaddingValue(key))]

\* hand-built tensors of a channel, told apart from padding by their values
TensorPool(key) ==
    {Fill(n, IF key \in {AttentionMaskKey(m) : m \in Modes} THEN 1 ELSE ResidueLId) :
        n \in 1..MaxTensorLen}

\* the keys __getitem__ can put into an example
ExampleKeys == PretrainKeys \ {"labels_local"}

\* example dictionaries: any set of those keys, each with a tensor of its
\* own length
ExampleDicts ==
    UNION {{d \in [ks -> UNION {TensorPool(k) : k \in ExampleKeys}] :
               \A k \in ks : d[k] \in TensorPool(k)} : ks \in SUBSET ExampleKeys}

InitCollate ==
    /\ dataframe = <<>>
    /\ dataset = NoDataset
    /\ replaced = <<>>
    /\ example = NoExample
    /\ status = "none"
    /\ op = "init"
    /\ batch = <<>>
    /\ batched = <<>>

\* the caller puts one more example dictionary into the batch
AddExample ==
    \E d \in ExampleDicts :
        /\ op \in {"init", "add"}
        /\ Len(batch) < MaxBatch
        /\ batch' = Append(batch, d)
        /\ example' = d
        /\ op' = "add"
        /\ UNCHANGED <<dataframe, dataset, replaced, status, batched>>

\* collate_fn of the training script on the batch
PretrainCollate ==
    /\ op \in {"init", "add"}
    /\ op' = "collate"
    /\ status' = PretrainCollateOutcome(batch)
    /\ batched' = IF status' = "ok" THEN pretrain_collate_fn(batch) ELSE batched
    /\ UNCHANGED <<dataframe, dataset, replaced, example, batch>>

NextCollate == AddExample \/ PretrainCollate

SpecCollate == InitCollate /\ [][NextCollate]_vars

----------------------------------------------------------------------------
(* Properties *)

LocalTokens == tokenize(Render(dataframe["masked_sequence_A"], dataframe["masked_sequence_B"]))
GlobalText == Render(dataframe["Sequence_A"], dataframe["Sequence_B"])

Returned == op = "getitem" /\ status = "ok"

\* the padding value the data model gives a channel
ChannelPadding(key) ==
    IF key \in {"labels_global", "labels_local", "labels_global_masked"} THEN -100 ELSE 0

\* the keys held by at least one, and by every, example of a batch
SomeKeys(b) == UNION {DOMAIN b[i] : i \in 1..Len(b)}
EveryKeys(b) == {k \in SomeKeys(b) : \A i \in 1..Len(b) : k \in DOMAIN b[i]}

\* the longest tensor of channel key among the examples of b that hold it
ChannelWidth(b, key) ==
    MaxOf({Len(b[i][key]) : i \in {j \in 1..Len(b) : key \in DOMAIN b[j]}})

\* C1: every example __getitem__ returns has input_ids, attention_mask and
\* labels of one length in the channel that carries labels, whatever the
\* token count and the masking draws.
C1_EqualLengths ==
    Returned =>
        /\ Len(example["input_ids_local"]) = Len(example["attention_mask_local"])
        /\ Len(example["attention_mask_local"]) = Len(example["labels_local"])

\* C2: for a non-empty batch whose examples all hold a channel, collate_fn
\* returns for it N rows of the channel's largest length, each row the
\* example's tensor followed by the channel's padding value only.
C2_CollatePadsEachChannel ==
    op = "collate" =>
        /\ status = "ok"
        /\ \A key \in EveryKeys(batch) :
              /\ key \in DOMAIN batched
              /\ Len(batched[key]) = Len(batch)
              /\ \A i \in 1..Len(batch) :
                    batched[key][i] =
                        batch[i][key] \o Fill(ChannelWidth(batch, key) - Len(batch[i][key]),
                                              ChannelPadding(key))

\* C3: collate_fn does not fail on a channel no example contributes to and
\* leaves it out, and every channel some example holds is in the batch it
\* returns.
C3_EmittedChannels ==
    op = "collate" => status = "ok" /\ DOMAIN batched = SomeKeys(batch)

\* the key sets of the examples __getitem__ of the training script builds
GetItemKeySets ==
    {UNION {IF m = "global_masked"
            THEN {InputIdsKey(m), AttentionMaskKey(m), LabelsKey(m)}
            ELSE {InputIdsKey(m), AttentionMaskKey(m)} : m \in ms} :
        ms \in (SUBSET Modes) \ {{}}}

\* every example of b has the keys of some choice of modes, and tensors of
\* one length within each mode
FromGetItem(b) ==
    \A i \in 1..Len(b) :
        /\ DOMAIN b[i] \in GetItemKeySets
        /\ \A m \in Modes, k1 \in DOMAIN b[i], k2 \in DOMAIN b[i] :
              {k1, k2} \subseteq {InputIdsKey(m), AttentionMaskKey(m), LabelsKey(m)}
                  => Len(b[i][k1]) = Len(b[i][k2])

\* C4: a channel held by only some examples of the batch is emitted by the
\* training script's collate_fn, as wide as the longest tensor among the
\* examples that hold it, padded with the channel's padding value, and
\* with batch_size rows.  Stated for batches of examples shaped as
\* __getitem__ shapes them.
C4_PartialChannelShape ==
    (op = "collate" /\ FromGetItem(batch)) =>
        /\ status = "ok"
        /\ \A key \in SomeKeys(batch) :
              /\ key \in DOMAIN batched
              /\ Len(batched[key]) = Len(batch)
              /\ \A r \in 1..Len(batched[key]) :
                    /\ Len(batched[key][r]) = ChannelWidth(batch, key)
                    /\ \E i \in 1..Len(batch) :
                          /\ key \in DOMAIN batch[i]
                          /\ batched[key][r] =
                                batch[i][key]
                                    \o Fill(ChannelWidth(batch, key) - Len(batch[i][key]),
                                            ChannelPadding(key))

\* C5: with mask_probability = 0 the masking path of the training script
\* returns labels that are -100 everywhere and the input_ids that
\* tokenize_sequence returns for the same text.
C5_ZeroProbabilityIsTokenizeSequence ==
    (Returned /\ dataset.mask_probability = 0 /\ "global_masked" \in dataset.modes) =>
        /\ \A i \in DOMAIN example["labels_global_masked"] :
              example["labels_global_masked"][i] = -100
        /\ example["input_ids_global_masked"] = pretrain_tokenize_sequence(GlobalText)[1]

\* C6: a dataframe that lacks a column the dataset reads is rejected by the
\* constructor, so a constructed dataset has all of them.
C6_ConstructionChecksColumns ==
    dataset.constructed => Columns \subseteq DOMAIN dataframe

\* the tensors example e holds for a mode do not all have one length
UnequalLengths(e, m) ==
    \E k1 \in {InputIdsKey(m), AttentionMaskKey(m), LabelsKey(m)} \cap DOMAIN e,
       k2 \in {InputIdsKey(m), AttentionMaskKey(m), LabelsKey(m)} \cap DOMAIN e :
        Len(e[k1]) # Len(e[k2])

\* C7: collate_fn never returns a batch built from an example whose
\* input_ids, attention_mask and labels differ in length: it raises.
C7_UnequalLengthsRaise ==
    (op = "collate" /\ \E i \in 1..Len(batch), m \in Modes : UnequalLengths(batch[i], m))
        => status # "ok"

\* the token of the local text that position i of the encoded input_ids
\* stands for, 0 for [CLS], [SEP] and padding
TokenAt(i) ==
    IF 2 <= i /\ i <= 1 + Min(Len(LocalTokens), dataset.max_length - 2) THEN i - 1 ELSE 0

\* C8: labels and input_ids of mask_and_tokenize_sequence are aligned:
\* labels[i] is not -100 exactly when the token at input_ids[i] was replaced
\* by the mask token, and is then the id of the token that stood there.
C8_LabelsAligned ==
    Returned =>
        \A i \in DOMAIN example["input_ids_local"] \cap DOMAIN example["labels_local"] :
            LET t == TokenAt(i)
                wasReplaced == t # 0 /\ replaced[t]
            IN  /\ example["labels_local"][i] # -100 <=> wasReplaced
                /\ wasReplaced => example["labels_local"][i] = TokenId(LocalTokens[t])

\* C9: in random_mask_sequence a position that is not selected keeps its id
\* and gets label -100; a selected position gets its original id as label
\* and the mask id or an id of 2 .. vocab_size-1 as input; the attention
\* mask is 1 everywhere.
C9_IdLevelMasking ==
    (Returned /\ "global_masked" \in dataset.modes) =>
        LET original  == convert_tokens_to_ids(tokenize(GlobalText))
            input_ids == example["input_ids_global_masked"]
            attention == example["attention_mask_global_masked"]
            labels    == example["labels_global_masked"]
        IN  /\ Len(input_ids) = Len(original)
            /\ Len(labels) = Len(original)
            /\ Len(attention) = Len(original)
            /\ \A i \in 1..Len(original) :
                  /\ attention[i] = 1
                  /\ ~replaced[i] => labels[i] = -100 /\ input_ids[i] = original[i]
                  /\ replaced[i] =>
                        /\ labels[i] = original[i]
                        /\ input_ids[i] = 4 \/ (2 <= input_ids[i] /\ input_ids[i] <= VocabSize - 1)

\* a returned example with a kept position, a position given the mask id
\* and a position given a random id that is neither the mask id nor its own
C9_Witness ==
    /\ Returned
    /\ "global_masked" \in dataset.modes
    /\ \E i, j, k \in DOMAIN replaced :
          LET original  == convert_tokens_to_ids(tokenize(GlobalText))
              input_ids == example["input_ids_global_masked"]
          IN  /\ ~replaced[i]
              /\ replaced[j] /\ input_ids[j] = 4 /\ original[j] # 4
              /\ replaced[k] /\ input_ids[k] \notin {4, original[k]}

\* C10: the input_ids, attention_mask and labels tensors the training
\* script's collate_fn emits for a mode have the same rows, row r of each
\* built from the same example.
C10_RowsFromSameExamples ==
    (op = "collate" /\ status = "ok") =>
        \A m \in Modes :
            \A key \in {AttentionMaskKey(m), LabelsKey(m)} \cap DOMAIN batched :
                Kept(batch, key) = Kept(batch, InputIdsKey(m))
====
